---- MODULE Spec2Model ----
(***************************************************************************)
(* Identity and enrollment provisioning core of the Mother Margaret school *)
(* backend: admin seeding (server.js GET /api/init, setup.js               *)
(* setupCompleteSystem, the older server variant), login and student       *)
(* enrollment, all running against one PostgreSQL store.                   *)
(*                                                                         *)
(* Every SQL statement is one atomic step (autocommit); a handler is a     *)
(* process whose steps are its awaited statements.  Text values whose case *)
(* matters (user names, e-mail local parts, class levels) are sequences of *)
(* one-character strings.  The store has the schema of server.js.          *)
(***************************************************************************)
EXTENDS Integers, Sequences, FiniteSets, TLC

\* ------------------------------------------------------------------ bounds
NumSeeders == 2      \* seeding runs of one behaviour
NumEnrollers == 3    \* enrollment requests of one behaviour
NumLogins == 1       \* login requests of one behaviour
MaxMs == 1           \* milliseconds the clock may advance
MaxDraw == 1         \* largest value of Math.random() * 900 a request draws

\* --------------------------------------------------------- program constants
RosterSize == 7            \* initialAdmins has seven entries
BcryptCost == 10           \* bcrypt.hash(password, 10)
UserIdPeriod == 1000000    \* Date.now().toString().slice(-6)
AccountPeriod == 100000000 \* Date.now().toString().slice(-8)
RandomLow == 100           \* Math.floor(100 + Math.random() * 900)
RandomSpan == 900
TokenDays == 7             \* expiresIn: '7d'
SecondsPerDay == 86400
BaseYear == 2024           \* new Date().getFullYear() at every modelled instant

\* SQL NULL / JavaScript undefined, one value for each type of column or field.
NULL == "NULL"                 \* a name or a date
NullText == <<"NULL">>         \* a text whose case matters
NullEmail == [null |-> TRUE]   \* an e-mail address
NullRecord == [null |-> TRUE]  \* a token or a profile
NullId == 0                    \* a row id (SERIAL ids start at 1)
NullTime == 0 - 1              \* a timestamp
NullKey == << >>               \* a generated identifier

Seeders == 1..NumSeeders
Enrollers == 1..NumEnrollers
Logins == 1..NumLogins

\* ------------------------------------------------------------------- text
\* Letters of the model's alphabet that have an upper and a lower case form.
CasePairs == { <<"A", "a">>, <<"M", "m">>, <<"P", "p">> }

IsAlnum(c) == c \in { "A", "a", "d", "M", "m", "i", "n", "P", "p",
                      "1", "2", "3", "4", "5", "6", "7" }

LowerChar(c) ==
    IF \E p \in CasePairs : p[1] = c
    THEN (CHOOSE p \in CasePairs : p[1] = c)[2]
    ELSE c

UpperChar(c) ==
    IF \E p \in CasePairs : p[2] = c
    THEN (CHOOSE p \in CasePairs : p[2] = c)[1]
    ELSE c

\* String.prototype.toLowerCase / toUpperCase
toLowerCase(s) == [i \in DOMAIN s |-> LowerChar(s[i])]
toUpperCase(s) == [i \in DOMAIN s |-> UpperChar(s[i])]

\* s.replace(/[^A-Z0-9]/g, ''): drop every character that is no upper-case
\* letter and no digit.
RECURSIVE StripNonUpperAlnum(_)
StripNonUpperAlnum(s) ==
    IF s = << >> THEN << >>
    ELSE IF IsAlnum(Head(s)) /\ UpperChar(Head(s)) = Head(s)
         THEN <<Head(s)>> \o StripNonUpperAlnum(Tail(s))
         ELSE StripNonUpperAlnum(Tail(s))

SchoolDomain == "mothermargaret.ac.ug"
Email(local, domain) == [local |-> local, domain |-> domain]

\* ------------------------------------------------------------- credentials
\* bcrypt.hash(secret, 10): a digest that is not the secret.  The random salt
\* is left out: no statement of the program reads it.
bcryptHash(secret) == [alg |-> "bcrypt", cost |-> BcryptCost, of |-> secret]

\* bcrypt.compare(secret, digest)
bcryptCompare(secret, digest) ==
    /\ digest \in [alg : {"bcrypt"}, cost : {BcryptCost}, of : {digest.of}]
    /\ digest.of = secret

\* ------------------------------------------------------------------ roster
Digits == <<"1", "2", "3", "4", "5", "6", "7">>

\* initialAdmins: { username: 'Admin<i>', password: '****$****#+<i>' }
initialAdmins ==
    [i \in 1..RosterSize |->
        [username |-> <<"A", "d", "m", "i", "n", Digits[i]>>,
         password |-> <<"****$****#+", i>>]]

\* `MMJS-${admin.username}`
adminUserId(admin) == <<"MMJS", admin.username>>

\* `${admin.username.toLowerCase()}@mothermargaret.ac.ug`
adminEmail(admin) == Email(toLowerCase(admin.username), SchoolDomain)

\* ------------------------------------------------------------------- state
VARIABLES
    tables,     \* TRUE once CREATE TABLE IF NOT EXISTS users/students has run
    users,      \* the users table: a sequence of rows, row i has id = i
    students,   \* the students table: a sequence of rows
    now,        \* Date.now(), in ms after an instant that is a multiple of 10^8
    seed,       \* the seeding runs, numbered in the order they start
    enr,        \* the enrollment requests, numbered in the order they arrive
    login,      \* the login requests, numbered in the order they arrive
    console     \* the initial secrets written in plaintext by console.log

vars == <<tables, users, students, now, seed, enr, login, console>>

\* ------------------------------------------------------------------- store
Rows(table) == { table[i] : i \in DOMAIN table }

\* UNIQUE(user_id), UNIQUE(email): NULLs never conflict.
UserIdConflict(us, row) == \E r \in Rows(us) : r.user_id = row.user_id
EmailConflict(us, row) ==
    row.email # NullEmail /\ \E r \in Rows(us) : r.email = row.email

\* users row built by an INSERT; columns the statement does not name take the
\* table's defaults (is_active true, requires_password_change false,
\* last_login NULL).
UserRow(user_id, email, password, role, rpc) ==
    [user_id |-> user_id, email |-> email, password |-> password, role |-> role,
     is_active |-> TRUE, requires_password_change |-> rpc, last_login |-> NullTime]

\* Mutant: the users table created without its UNIQUE constraints.
InsertUserOutcome_NoUnique(us, row, target) ==
    IF row.email = NullEmail THEN "not null" ELSE "inserted"

\* Mutant: the INSERT without its ON CONFLICT clause.
InsertUserOutcome_NoClause(us, row, target) ==
    IF row.email = NullEmail THEN "not null"
    ELSE IF UserIdConflict(us, row) \/ EmailConflict(us, row) THEN "duplicate key"
    ELSE "inserted"

\* INSERT INTO users ... [ON CONFLICT (target) DO NOTHING].
\* target is "email", "user_id" or "none".  The outcome is "inserted",
\* "nothing" (the conflict clause applied), "duplicate key" (a unique
\* violation the clause does not cover) or "not null" (email is NOT NULL).
InsertUserOutcome(us, row, target) ==
    IF row.email = NullEmail THEN "not null"
    ELSE IF target = "email" /\ EmailConflict(us, row) THEN "nothing"
    ELSE IF target = "user_id" /\ UserIdConflict(us, row) THEN "nothing"
    ELSE IF UserIdConflict(us, row) \/ EmailConflict(us, row) THEN "duplicate key"
    ELSE "inserted"

\* Mutant: ON CONFLICT ... DO UPDATE, overwriting the stored row.
InsertUser_Upsert(us, row, target) ==
    CASE InsertUserOutcome(us, row, target) = "inserted" -> Append(us, row)
      [] InsertUserOutcome(us, row, target) = "nothing" ->
            [i \in DOMAIN us |->
                IF \/ target = "email" /\ us[i].email = row.email
                   \/ target = "user_id" /\ us[i].user_id = row.user_id
                THEN row ELSE us[i]]
      [] OTHER -> us

InsertUser(us, row, target) ==
    IF InsertUserOutcome(us, row, target) = "inserted" THEN Append(us, row) ELSE us

\* The unique columns of users on which `row` collides with a stored row.
UserConflicts(us, row) ==
    { c \in {"user_id", "email"} :
        \/ c = "user_id" /\ UserIdConflict(us, row)
        \/ c = "email" /\ EmailConflict(us, row) }

\* RETURNING id of a successful INSERT INTO users: SERIAL ids are never reused
\* and no row is ever deleted, so the id of a row is its position.
returnedId(us) == Len(us) + 1

\* ----------------------------------------------------------------- seeding
SeedImpls == {"server", "setup", "variant"}

\* The ON CONFLICT target of the implementation's admin INSERT.
SeedConflictTarget(impl) == IF impl = "server" THEN "email" ELSE "user_id"

\* server.js and setup.js insert requires_password_change = true; the variant's
\* INSERT does not name the column.
SeedRequiresChange(impl) == impl \in {"server", "setup"}

SeedRow(impl, admin) ==
    UserRow(adminUserId(admin), adminEmail(admin), bcryptHash(admin.password),
            "admin", SeedRequiresChange(impl))

SeedIdle ==
    [impl |-> NULL, status |-> "idle", next |-> 1, reported |-> << >>, inserted |-> {},
     raised |-> {}]

\* The run starts: every CREATE TABLE IF NOT EXISTS statement.
SeedStart(p, impl) ==
    /\ seed[p].status = "idle"
    /\ \A q \in Seeders : q < p => seed[q].status # "idle"
    /\ tables' = TRUE
    /\ seed' = [seed EXCEPT ![p] = [@ EXCEPT !.impl = impl, !.status = "running"]]
    /\ UNCHANGED <<users, students, now, enr, login, console>>

\* What the run reports once admin i has been handled with `outcome`:
\* server.js pushes to createdAdmins whenever the INSERT did not throw; the
\* variant answers with the whole roster after the loop; setup.js has no
\* response.
SeedReported(s, i, outcome) ==
    CASE s.impl = "server" ->
            IF outcome \in {"inserted", "nothing"} THEN Append(s.reported, i)
            ELSE s.reported
      [] s.impl = "variant" ->
            IF i = RosterSize /\ outcome \in {"inserted", "nothing"}
            THEN [k \in 1..RosterSize |-> k]
            ELSE s.reported
      [] OTHER -> s.reported

\* Mutant: server.js without the try/catch around each admin.
SeedStatus_NoCatch(s, i, outcome) ==
    IF outcome \notin {"inserted", "nothing"} THEN "failed"
    ELSE IF i = RosterSize THEN "ok"
    ELSE "running"

\* A thrown INSERT ends the run in setup.js (process.exit(1)) and in the
\* variant (HTTP 500); server.js catches it per admin and goes on.
SeedStatus(s, i, outcome) ==
    IF outcome \notin {"inserted", "nothing"} /\ s.impl # "server" THEN "failed"
    ELSE IF i = RosterSize THEN "ok"
    ELSE "running"

\* The plaintext passwords of the roster.
rosterSecrets == { initialAdmins[i].password : i \in 1..RosterSize }

\* setup.js, once its run has succeeded, prints every roster account's e-mail
\* and password with console.log; the /api/init handlers print no password.
SeedLogged(impl, status) ==
    IF impl = "setup" /\ status = "ok" THEN rosterSecrets ELSE {}

\* server.js, app.listen callback: the start-up banner prints the seven
\* initial admin passwords.
Listen ==
    /\ console' = console \cup rosterSecrets
    /\ UNCHANGED <<tables, users, students, now, seed, enr, login>>

\* One turn of the loop: hash the password, INSERT the admin; after the last
\* admin the run answers (setup.js: prints the credentials and exits).
SeedInsert(p) ==
    LET s == seed[p]
        i == s.next
        row == SeedRow(s.impl, initialAdmins[i])
        target == SeedConflictTarget(s.impl)
        outcome == InsertUserOutcome(users, row, target)
    IN  /\ s.status = "running"
        /\ users' = InsertUser(users, row, target)
        /\ seed' = [seed EXCEPT ![p] =
                [@ EXCEPT !.status = SeedStatus(s, i, outcome),
                          !.next = i + 1,
                          !.reported = SeedReported(s, i, outcome),
                          !.inserted = IF outcome = "inserted" THEN @ \cup {i} ELSE @,
                          !.raised = IF outcome \in {"inserted", "nothing"}
                                     THEN @ ELSE @ \cup {i}]]
        /\ console' = console \cup SeedLogged(s.impl, SeedStatus(s, i, outcome))
        /\ UNCHANGED <<tables, students, now, enr, login>>

\* The same turn when the INSERT is rejected with an error that is no conflict
\* (connection lost, statement timeout): nothing is stored.
SeedInsertError(p) ==
    LET s == seed[p]
        i == s.next
        outcome == "error"
    IN  /\ s.status = "running"
        /\ seed' = [seed EXCEPT ![p] =
                [@ EXCEPT !.status = SeedStatus(s, i, outcome),
                          !.next = i + 1,
                          !.reported = SeedReported(s, i, outcome),
                          !.raised = @ \cup {i}]]
        /\ console' = console \cup SeedLogged(s.impl, SeedStatus(s, i, outcome))
        /\ UNCHANGED <<tables, users, students, now, enr, login>>

\* -------------------------------------------------------------- enrollment
EnrollImpls == {"server", "variant"}

\* students row.  student_id and school_account_number are UNIQUE (NULLs never
\* conflict); first_name, last_name, date_of_birth and class_level are NOT NULL;
\* parent_id REFERENCES users(id).
StudentRow(student_id, req, parent_id, account) ==
    [student_id |-> student_id, first_name |-> req.firstName,
     last_name |-> req.lastName, date_of_birth |-> req.dateOfBirth,
     class_level |-> req.classLevel, parent_id |-> parent_id,
     school_account_number |-> account]

InsertStudentOutcome(us, sts, row) ==
    IF \/ row.first_name = NULL \/ row.last_name = NULL
       \/ row.date_of_birth = NULL \/ row.class_level = NullText
    THEN "not null"
    ELSE IF \/ \E r \in Rows(sts) : r.student_id = row.student_id
            \/ /\ row.school_account_number # NullKey
               /\ \E r \in Rows(sts) : r.school_account_number = row.school_account_number
    THEN "duplicate key"
    ELSE IF row.parent_id # NullId /\ row.parent_id \notin DOMAIN us
    THEN "foreign key"
    ELSE "inserted"

\* Mutant: the row is stored although the statement failed.
InsertStudent_Always(us, sts, row) == Append(sts, row)

InsertStudent(us, sts, row) ==
    IF InsertStudentOutcome(us, sts, row) = "inserted" THEN Append(sts, row) ELSE sts

\* if (!firstName || !lastName || !dateOfBirth || !classLevel || !parentEmail)
MissingRequired(req) ==
    \/ req.firstName = NULL \/ req.lastName = NULL \/ req.dateOfBirth = NULL
    \/ req.classLevel = NullText \/ req.parentEmail = NullEmail

\* classLevel.toUpperCase().replace(/[^A-Z0-9]/g, '')
classPrefix(classLevel) == StripNonUpperAlnum(toUpperCase(classLevel))

\* server.js: `MMJS-${classPrefix}-${currentYear}-${randomNum}`;
\* variant:   `MMJS-${classLevel}-${Date.now().toString().slice(-6)}`
studentIdOf(impl, req, t, draw) ==
    IF impl = "server"
    THEN <<"MMJS", classPrefix(req.classLevel), BaseYear, RandomLow + draw>>
    ELSE <<"MMJS", req.classLevel, t % UserIdPeriod>>

\* server.js: `MMJS-ACC-${Date.now().toString().slice(-8)}`; the variant's
\* INSERT names no school_account_number.
schoolAccountNumberOf(impl, t) ==
    IF impl = "server" THEN <<"MMJS-ACC", t % AccountPeriod>> ELSE NullKey

\* `MMJS-PARENT-${Date.now().toString().slice(-6)}`
parentUserIdOf(t) == <<"MMJS-PARENT", t % UserIdPeriod>>

\* server.js: SELECT id FROM users WHERE email = $1 AND role = 'parent';
\* variant:   SELECT id FROM users WHERE email = $1.
\* The ids of the matching rows (email = NULL matches nothing).
parentLookup(impl, us, email) ==
    { i \in DOMAIN us :
        /\ email # NullEmail
        /\ us[i].email = email
        /\ (impl = "server" => us[i].role = "parent") }

\* The catch block: server.js answers 409 when the message has 'duplicate key',
\* 500 otherwise; the variant always answers 500.
enrollErrorStatus(impl, outcome) ==
    IF impl = "server" /\ outcome = "duplicate key" THEN 409 ELSE 500

\* Mutant: reads a property the row does not have (undefined, stored as NULL).
foundParentId_Undefined(hits) == NullId

\* parentResult.rows[0].id
foundParentId(hits) == CHOOSE i \in hits : TRUE

\* Mutant: `let parentCreated = true`.
EnrollIdle_CreatedTrue ==
    [pc |-> "idle", impl |-> NULL, req |-> NullRecord, studentId |-> NullKey,
     schoolAccountNumber |-> NullKey, parentId |-> NullId, parentCreated |-> TRUE,
     status |-> 0, at |-> NullTime, found |-> FALSE, userRow |-> 0,
     studentRow |-> 0, parentConflict |-> {}]

\* The code's variables (studentId, schoolAccountNumber, parentId,
\* parentCreated), the answer's status, and a record of what the request did:
\* at (the instant it arrived), found (the lookup had a row), userRow and
\* studentRow (the rows it inserted, 0 for none), parentConflict (the unique
\* columns its account INSERT hit).
EnrollIdle ==
    [pc |-> "idle", impl |-> NULL, req |-> NullRecord, studentId |-> NullKey,
     schoolAccountNumber |-> NullKey, parentId |-> NullId, parentCreated |-> FALSE,
     status |-> 0, at |-> NullTime, found |-> FALSE, userRow |-> 0,
     studentRow |-> 0, parentConflict |-> {}]

EnrollDone(r, status) == [r EXCEPT !.pc = "done", !.status = status]

\* The handler up to and including its parent SELECT: validation (server.js
\* only), the generated identifiers, the lookup.
EnrollBegin(e, impl, req, draw) ==
    LET r0 == [EnrollIdle EXCEPT !.impl = impl, !.req = req, !.at = now]
        r1 == [r0 EXCEPT !.studentId = studentIdOf(impl, req, now, draw),
                         !.schoolAccountNumber = schoolAccountNumberOf(impl, now)]
        hits == parentLookup(impl, users, req.parentEmail)
    IN  /\ enr[e].pc = "idle"
        /\ \A d \in Enrollers : d < e => enr[d].pc # "idle"
        /\ enr' = [enr EXCEPT ![e] =
              IF impl = "server" /\ MissingRequired(req) THEN EnrollDone(r0, 400)
              ELSE IF ~tables THEN EnrollDone(r1, 500)
              ELSE IF hits = {} THEN [r1 EXCEPT !.pc = "parent"]
              ELSE [r1 EXCEPT !.pc = "student", !.found = TRUE,
                              !.parentId = foundParentId(hits)]]
        /\ UNCHANGED <<tables, users, students, now, seed, login, console>>

\* Math.random().toString(36).slice(-10): one representative secret.
TempPasswords == { <<"temp">> }

\* No parent row was found: hash a temporary password and INSERT the account.
EnrollInsertParent(e, temp) ==
    LET r == enr[e]
        row == UserRow(parentUserIdOf(now), r.req.parentEmail, bcryptHash(temp),
                       "parent", FALSE)
        outcome == InsertUserOutcome(users, row, "none")
    IN  /\ r.pc = "parent"
        /\ users' = InsertUser(users, row, "none")
        /\ enr' = [enr EXCEPT ![e] =
              IF outcome = "inserted"
              THEN [r EXCEPT !.pc = "student", !.parentId = returnedId(users),
                             !.parentCreated = (r.impl = "server"),
                             !.userRow = returnedId(users)]
              ELSE [EnrollDone(r, enrollErrorStatus(r.impl, outcome)) EXCEPT
                      !.parentConflict = UserConflicts(users, row)]]
        /\ UNCHANGED <<tables, students, now, seed, login, console>>

\* INSERT the student row and answer 201, or answer from the catch block.
EnrollInsertStudent(e) ==
    LET r == enr[e]
        row == StudentRow(r.studentId, r.req, r.parentId, r.schoolAccountNumber)
        outcome == InsertStudentOutcome(users, students, row)
    IN  /\ r.pc = "student"
        /\ students' = InsertStudent(users, students, row)
        /\ enr' = [enr EXCEPT ![e] =
              IF outcome = "inserted"
              THEN [EnrollDone(r, 201) EXCEPT !.studentRow = Len(students) + 1]
              ELSE EnrollDone(r, enrollErrorStatus(r.impl, outcome))]
        /\ UNCHANGED <<tables, users, now, seed, login, console>>

\* ------------------------------------------------------------------- clock
Instants == (0..MaxMs) \cup {UserIdPeriod}

Tick == /\ \E t \in Instants : t > now /\ now' = t
        /\ UNCHANGED <<tables, users, students, seed, enr, login, console>>

\* ------------------------------------------------------------------- login
LoginImpls == {"server", "variant"}

\* Mutant: a lifetime that depends on the role.
jwtSign_RoleLifetime(user, t) ==
    [userId |-> user.user_id, role |-> user.role,
     iat |-> t \div 1000,
     exp |-> (t \div 1000)
               + (IF user.role = "admin" THEN 1 ELSE TokenDays) * SecondsPerDay]

\* jwt.sign(payload, secret, { expiresIn: '7d' }): iat is the clock in seconds,
\* exp = iat + 7 days.
jwtSign(user, t) ==
    [userId |-> user.user_id, role |-> user.role,
     iat |-> t \div 1000, exp |-> (t \div 1000) + TokenDays * SecondsPerDay]

\* Mutant: the SELECT without `AND is_active = true`.
loginLookup_AnyRow(us, email) ==
    { i \in DOMAIN us : email # NullEmail /\ us[i].email = email }

\* SELECT * FROM users WHERE email = $1 AND is_active = true
loginLookup(us, email) ==
    { i \in DOMAIN us : email # NullEmail /\ us[i].email = email /\ us[i].is_active }

\* The user object of the answer: the variant's has no requiresPasswordChange.
loginProfile(impl, user) ==
    IF impl = "server"
    THEN [id |-> user.user_id, email |-> user.email, role |-> user.role,
          requiresPasswordChange |-> user.requires_password_change]
    ELSE [id |-> user.user_id, email |-> user.email, role |-> user.role]

LoginIdle ==
    [pc |-> "idle", impl |-> NULL, email |-> NullEmail, password |-> NullKey,
     userId |-> NullId, status |-> 0, token |-> NullRecord, profile |-> NullRecord,
     message |-> NULL]

LoginDone(r, status) == [r EXCEPT !.pc = "done", !.status = status]

\* res.status(a.status).json({ success: false, message: a.message })
LoginAnswer(r, a) == [LoginDone(r, a.status) EXCEPT !.message = a.message]

\* if (!email || !password): server.js only.
missingFieldsAnswer == [status |-> 400, message |-> "Email and password are required"]

\* Mutant: the answer names the check that failed.
unknownAccountAnswer_Reveals(impl) == [status |-> 404, message |-> "User not found"]

\* No active row has the address.
unknownAccountAnswer(impl) ==
    [status |-> 401,
     message |-> IF impl = "server" THEN "Invalid email or password"
                 ELSE "Invalid credentials"]

\* bcrypt.compare answered false.
wrongPasswordAnswer(impl) ==
    [status |-> 401,
     message |-> IF impl = "server" THEN "Invalid email or password"
                 ELSE "Invalid credentials"]

\* The handler up to and including its SELECT.
LoginBegin(l, impl, email, password) ==
    LET r == [LoginIdle EXCEPT !.impl = impl, !.email = email, !.password = password]
        hits == loginLookup(users, email)
    IN  /\ login[l].pc = "idle"
        /\ \A k \in Logins : k < l => login[k].pc # "idle"
        /\ login' = [login EXCEPT ![l] =
              IF impl = "server" /\ (email = NullEmail \/ password = NullKey)
              THEN LoginAnswer(r, missingFieldsAnswer)
              ELSE IF ~tables THEN LoginDone(r, 500)
              ELSE IF hits = {} THEN LoginAnswer(r, unknownAccountAnswer(impl))
              ELSE [r EXCEPT !.pc = "compare", !.userId = CHOOSE i \in hits : TRUE]]
        /\ UNCHANGED <<tables, users, students, now, seed, enr, console>>

\* Mutant: the UPDATE of last_login placed before the password check.
LoginFinish_UpdateFirst(l) ==
    LET r == login[l]
        user == users[r.userId]
        valid == r.password # NullKey /\ bcryptCompare(r.password, user.password)
    IN  /\ r.pc = "compare"
        /\ users' = IF r.impl = "server"
                    THEN [users EXCEPT ![r.userId].last_login = now]
                    ELSE users
        /\ login' = [login EXCEPT ![l] =
              IF r.password = NullKey THEN LoginDone(r, 500)
              ELSE IF valid
              THEN [LoginDone(r, 200) EXCEPT
                      !.token = jwtSign(user, now),
                      !.profile = loginProfile(r.impl, user),
                      !.message = "Login successful"]
              ELSE LoginAnswer(r, wrongPasswordAnswer(r.impl))]
        /\ UNCHANGED <<tables, students, now, seed, enr, console>>

\* Mutant: a successful login also clears requires_password_change.
LoginFinish_ClearsFlag(l) ==
    LET r == login[l]
        user == users[r.userId]
        valid == r.password # NullKey /\ bcryptCompare(r.password, user.password)
    IN  /\ r.pc = "compare"
        /\ users' = IF valid /\ r.impl = "server"
                    THEN [users EXCEPT ![r.userId].last_login = now,
                                       ![r.userId].requires_password_change = FALSE]
                    ELSE users
        /\ login' = [login EXCEPT ![l] =
              IF r.password = NullKey THEN LoginDone(r, 500)
              ELSE IF valid
              THEN [LoginDone(r, 200) EXCEPT
                      !.token = jwtSign(user, now),
                      !.profile = loginProfile(r.impl, user),
                      !.message = "Login successful"]
              ELSE LoginAnswer(r, wrongPasswordAnswer(r.impl))]
        /\ UNCHANGED <<tables, students, now, seed, enr, console>>

\* bcrypt.compare (which rejects when the password is undefined: the catch
\* answers 500), then (server.js only) UPDATE users SET last_login, then the
\* token and the answer.
LoginFinish(l) ==
    LET r == login[l]
        user == users[r.userId]
        valid == r.password # NullKey /\ bcryptCompare(r.password, user.password)
    IN  /\ r.pc = "compare"
        /\ users' = IF valid /\ r.impl = "server"
                    THEN [users EXCEPT ![r.userId].last_login = now]
                    ELSE users
        /\ login' = [login EXCEPT ![l] =
              IF r.password = NullKey THEN LoginDone(r, 500)
              ELSE IF valid
              THEN [LoginDone(r, 200) EXCEPT
                      !.token = jwtSign(user, now),
                      !.profile = loginProfile(r.impl, user),
                      !.message = "Login successful"]
              ELSE LoginAnswer(r, wrongPasswordAnswer(r.impl))]
        /\ UNCHANGED <<tables, students, now, seed, enr, console>>

\* ------------------------------------------------------------------ inputs
ParentDomain == "example.ug"

\* Guardian addresses of the requests: one address in two spellings of its
\* case, and the address of the first roster account.
ParentEmails ==
    { Email(<<"m">>, ParentDomain), Email(<<"M">>, ParentDomain),
      adminEmail(initialAdmins[1]) }

ClassLevels == { <<"p", "-", "1">> }

FullRequest ==
    [firstName |-> "Ann", lastName |-> "K", dateOfBirth |-> "2018-03-01",
     classLevel |-> <<"p", "-", "1">>, parentEmail |-> Email(<<"m">>, ParentDomain)]

ValidRequests ==
    { [FullRequest EXCEPT !.classLevel = c, !.parentEmail = m] :
        c \in ClassLevels, m \in ParentEmails }

\* Requests with one required field missing.
InvalidRequests ==
    { [FullRequest EXCEPT !.firstName = NULL], [FullRequest EXCEPT !.lastName = NULL],
      [FullRequest EXCEPT !.dateOfBirth = NULL],
      [FullRequest EXCEPT !.classLevel = NullText],
      [FullRequest EXCEPT !.parentEmail = NullEmail] }

ChildNames == <<"Ann", "Ben", "Cat", "Dan", "Eve">>
RequestFor(e, req) ==
    IF req.firstName = NULL THEN req
    ELSE [req EXCEPT !.firstName = ChildNames[((e - 1) % Len(ChildNames)) + 1]]

\* Well-formed requests whose guardian address is no roster address.
GuardianRequests ==
    { r \in ValidRequests : r.parentEmail.domain = ParentDomain }

\* Values of Math.floor(Math.random() * 900) the requests draw.
Draws == { d \in 0..MaxDraw : d < RandomSpan }

\* server.js draws a random number; the variant does not.
DrawsOf(impl) == IF impl = "server" THEN Draws ELSE {0}

LoginEmails == { adminEmail(initialAdmins[1]), Email(<<"m">>, ParentDomain), NullEmail }
LoginPasswords == { initialAdmins[1].password, <<"wrong">> }

\* ----------------------------------------------------------- specifications
Init ==
    /\ tables = FALSE
    /\ users = << >>
    /\ students = << >>
    /\ now = 0
    /\ seed = [p \in Seeders |-> SeedIdle]
    /\ enr = [e \in Enrollers |-> EnrollIdle]
    /\ login = [l \in Logins |-> LoginIdle]
    /\ console = {}

\* The store once a setup.js run has ended with exit code 0 on the empty store.
InitSeeded ==
    /\ tables = TRUE
    /\ users = [i \in 1..RosterSize |-> SeedRow("setup", initialAdmins[i])]
    /\ students = << >>
    /\ now = 0
    /\ seed = [p \in Seeders |->
                 IF p = 1
                 THEN [impl |-> "setup", status |-> "ok", next |-> RosterSize + 1,
                       reported |-> << >>, inserted |-> 1..RosterSize,
                       raised |-> {}]
                 ELSE SeedIdle]
    /\ enr = [e \in Enrollers |-> EnrollIdle]
    /\ login = [l \in Logins |-> LoginIdle]
    /\ console = SeedLogged("setup", "ok")

SeedStartIn(S) == \E p \in S, impl \in SeedImpls : SeedStart(p, impl)
SeedInsertIn(S) == \E p \in S : SeedInsert(p)
\* The e-th request is about the e-th child.
EnrollBeginIn(E, reqs) ==
    \E e \in E, impl \in EnrollImpls, req \in reqs :
        \E draw \in DrawsOf(impl) : EnrollBegin(e, impl, RequestFor(e, req), draw)
EnrollInsertParentAny ==
    \E e \in Enrollers, temp \in TempPasswords : EnrollInsertParent(e, temp)
EnrollInsertStudentAny == \E e \in Enrollers : EnrollInsertStudent(e)
LoginBeginIn(emails, passwords) ==
    \E l \in Logins, impl \in LoginImpls, email \in emails, pw \in passwords :
        LoginBegin(l, impl, email, pw)
LoginFinishAny == \E l \in Logins : LoginFinish(l)

\* Seeding runs alone, from the empty store.
NextSeed == SeedStartIn(Seeders) \/ SeedInsertIn(Seeders)
SpecSeed == Init /\ [][NextSeed]_vars

\* Seeding runs against a store that may reject a statement.
SeedInsertErrorIn(S) == \E p \in S : SeedInsertError(p)
NextFaulty == NextSeed \/ SeedInsertErrorIn(Seeders)
SpecFaulty == Init /\ [][NextFaulty]_vars

\* Start-up of server.js and seeding runs, from the empty store.
NextBoot == Listen \/ NextSeed
SpecBoot == Init /\ [][NextBoot]_vars

\* Enrollment requests for one guardian address, spelled in two ways, against
\* the seeded store.
NextEnroll ==
    \/ EnrollBeginIn(Enrollers, GuardianRequests)
    \/ EnrollInsertParentAny
    \/ EnrollInsertStudentAny
    \/ Tick
SpecEnroll == InitSeeded /\ [][NextEnroll]_vars

\* The same requests, each arriving after the one before it was answered, at
\* a later millisecond than it.
NoneInFlight ==
    \A e \in Enrollers : enr[e].pc = "idle" \/ (enr[e].pc = "done" /\ enr[e].at < now)
EnrollBeginAlone(reqs) == NoneInFlight /\ EnrollBeginIn(Enrollers, reqs)
NextSequential ==
    \/ EnrollBeginAlone(GuardianRequests)
    \/ EnrollInsertParentAny
    \/ EnrollInsertStudentAny
    \/ Tick
SpecSequential == InitSeeded /\ [][NextSequential]_vars

\* Requests naming the address of a roster account, and malformed requests.
RosterRequests == (ValidRequests \ GuardianRequests) \cup InvalidRequests

\* Everything from the empty store: a seeding run, an enrollment request and
\* the login requests, in any interleaving.
Next ==
    \/ SeedStartIn({1})
    \/ SeedInsertIn({1})
    \/ EnrollBeginIn({1}, RosterRequests)
    \/ EnrollInsertParentAny
    \/ EnrollInsertStudentAny
    \/ LoginBeginIn(LoginEmails, LoginPasswords)
    \/ LoginFinishAny
    \/ Tick
Spec == Init /\ [][Next]_vars

\* The account an enrollment of server.js at instant 0 creates for the guardian
\* address m@example.ug.
GuardianRow ==
    UserRow(parentUserIdOf(0), Email(<<"m">>, ParentDomain),
            bcryptHash(CHOOSE temp \in TempPasswords : TRUE), "parent", FALSE)

\* The seeded store with that guardian account.
AccountRows ==
    [i \in 1..RosterSize |-> SeedRow("setup", initialAdmins[i])] \o <<GuardianRow>>

\* Rows whose is_active column may have been set to false in the database.
Deactivable == {1, RosterSize + 1}

AccountEmails ==
    { adminEmail(initialAdmins[1]), Email(<<"m">>, ParentDomain),
      Email(<<"M">>, ParentDomain), NullEmail }
AccountPasswords ==
    { initialAdmins[1].password, CHOOSE temp \in TempPasswords : TRUE,
      <<"wrong">>, NullKey }

\* The store after seeding and one enrollment, some accounts deactivated.
InitLogin ==
    /\ tables = TRUE
    /\ \E D \in SUBSET Deactivable :
          users = [i \in DOMAIN AccountRows |->
                     [AccountRows[i] EXCEPT !.is_active = (i \notin D)]]
    /\ students = << >>
    /\ now = 0
    /\ seed = [p \in Seeders |->
                 IF p = 1
                 THEN [impl |-> "setup", status |-> "ok", next |-> RosterSize + 1,
                       reported |-> << >>, inserted |-> 1..RosterSize,
                       raised |-> {}]
                 ELSE SeedIdle]
    /\ enr = [e \in Enrollers |-> EnrollIdle]
    /\ login = [l \in Logins |-> LoginIdle]
    /\ console = SeedLogged("setup", "ok")

\* Login requests against that store.
NextLogin ==
    \/ LoginBeginIn(AccountEmails, AccountPasswords)
    \/ LoginFinishAny
    \/ Tick
SpecLogin == InitLogin /\ [][NextLogin]_vars

\* ------------------------------------------------------------------ claims
AdminRows == { i \in DOMAIN users : users[i].role = "admin" }
RowsWithUserId(uid) == { i \in DOMAIN users : users[i].user_id = uid }
RowsWithEmail(email) == { i \in DOMAIN users : users[i].email = email }

SeedEnded(p) == seed[p].status \in {"ok", "failed"}
SomeSeedEnded == \E p \in Seeders : SeedEnded(p)
NoSeedRunning == \A p \in Seeders : seed[p].status # "running"

\* C1: from the empty users table, with only seeding runs (of any of the three
\* implementations, one after the other or interleaved statement by statement),
\* there are never more than 7 admin accounts, and once a run has ended and
\* none is in flight the table holds exactly 7 accounts, all admins, one for
\* each of MMJS-Admin1 .. MMJS-Admin7.
C1_SeedingConverges ==
    /\ Cardinality(AdminRows) <= RosterSize
    /\ (SomeSeedEnded /\ NoSeedRunning) =>
          /\ Len(users) = RosterSize
          /\ Cardinality(AdminRows) = RosterSize
          /\ \A k \in 1..RosterSize :
                Cardinality(RowsWithUserId(adminUserId(initialAdmins[k])) \cap AdminRows) = 1

\* Two runs of different implementations have ended, each having inserted
\* some of the accounts and skipped the others.
C1_Witness ==
    /\ \A p \in {1, 2} : seed[p].status = "ok" /\ seed[p].inserted # {}
    /\ seed[1].impl # seed[2].impl

\* C2: no step of a seeding run changes a row that is already in the users
\* table: the password hash, role, active flag and requires_password_change
\* flag of every stored row are the same after the step.
C2_SeedingKeepsRows ==
    [][\A i \in DOMAIN users :
          /\ i \in DOMAIN users'
          /\ users'[i].password = users[i].password
          /\ users'[i].role = users[i].role
          /\ users'[i].is_active = users[i].is_active
          /\ users'[i].requires_password_change = users[i].requires_password_change]_vars

\* A run of server.js has ended on a store that the variant had seeded before:
\* it inserted nothing and every account still has the variant's flag.
C2_Witness ==
    \E p, q \in Seeders :
        /\ seed[p].impl = "server" /\ seed[p].status = "ok" /\ seed[p].inserted = {}
        /\ seed[q].impl = "variant" /\ seed[q].inserted = 1..RosterSize
        /\ \A i \in DOMAIN users : ~users[i].requires_password_change

\* C3: whenever a seeding run has reported success, the users table holds all
\* seven accounts MMJS-Admin1 .. MMJS-Admin7, each with role admin.
C3_SuccessMeansRoster ==
    \A p \in Seeders :
        seed[p].status = "ok" =>
            \A k \in 1..RosterSize :
                \E i \in RowsWithUserId(adminUserId(initialAdmins[k])) :
                    users[i].role = "admin"

\* C4: when seeding runs race, none ends in a failure outcome.
C4_ConflictIsSuccess == \A p \in Seeders : seed[p].status # "failed"

\* Two runs, one of them setup.js, have raced to the end: each inserted some
\* accounts and met a conflict on the others.
C4_Witness ==
    /\ \A p \in {1, 2} :
          seed[p].status = "ok" /\ seed[p].inserted \notin {{}, 1..RosterSize}
    /\ \E p \in {1, 2} : seed[p].impl = "setup"

\* C5: a seeding response discloses the initial secret of an account only if
\* this run inserted the account.
C5_SecretsOnlyForCreated ==
    \A p \in Seeders :
        \A n \in DOMAIN seed[p].reported : seed[p].reported[n] \in seed[p].inserted

\* An enrollment request that passed validation and reached the store.
Enrolling(e) == enr[e].pc # "idle" /\ enr[e].status # 400 /\ tables
\* Its account INSERT has been executed or was not needed.
PastParentStep(e) ==
    \/ enr[e].pc = "student"
    \/ enr[e].pc = "done" /\ (enr[e].found \/ enr[e].userRow # 0 \/ enr[e].parentConflict # {})

\* C6: enrollments arriving one after the other: every answered enrollment has
\* inserted exactly one student row, whose parent_id is the guardian account;
\* when no account had the guardian address it inserted exactly one account,
\* with role parent; when one had, it inserted none; and the student rows of
\* two enrollments with the same guardian address name the same account.
C6_SequentialEnrollment ==
    /\ \A e \in Enrollers :
          enr[e].pc = "done" =>
              /\ enr[e].studentRow \in DOMAIN students
              /\ students[enr[e].studentRow].parent_id = enr[e].parentId
              /\ enr[e].found => enr[e].userRow = 0
              /\ ~enr[e].found =>
                    /\ enr[e].userRow \in DOMAIN users
                    /\ enr[e].userRow = enr[e].parentId
                    /\ users[enr[e].userRow].role = "parent"
    /\ \A d, e \in Enrollers :
          (enr[d].pc = "done" /\ enr[e].pc = "done"
              /\ enr[d].req.parentEmail = enr[e].req.parentEmail)
          => enr[d].parentId = enr[e].parentId

\* C7: an enrollment whose account INSERT hit the uniqueness conflict on the
\* guardian address still completes: it answers 201 and its student row names
\* the one account that has the address.
C7_ConflictIsReread ==
    \A e \in Enrollers :
        (enr[e].pc = "done" /\ "email" \in enr[e].parentConflict) =>
            /\ enr[e].status = 201
            /\ enr[e].studentRow \in DOMAIN students
            /\ students[enr[e].studentRow].parent_id
                  \in RowsWithEmail(enr[e].req.parentEmail)

\* The enrollments that found no account for `email` and have executed their
\* account INSERT.
Racers(email) ==
    { e \in Enrollers :
        /\ Enrolling(e) /\ enr[e].req.parentEmail = email
        /\ ~enr[e].found /\ PastParentStep(e) }

\* C8: when two or more enrollments found no account for the same guardian
\* address and have executed their account INSERT, exactly one of them
\* inserted the account, and exactly one account has the address.
C8_OneAccountPerRace ==
    \A email \in ParentEmails :
        Cardinality(Racers(email)) >= 2 =>
            /\ Cardinality({ e \in Racers(email) : enr[e].userRow # 0 }) = 1
            /\ Cardinality(RowsWithEmail(email)) = 1

\* An e-mail address with its letters in lower case.
NormalizeEmail(e) ==
    IF e = NullEmail THEN NullEmail ELSE Email(toLowerCase(e.local), e.domain)

\* C9: no two accounts have addresses that are equal after case normalization.
C9_NormalizedEmailUnique ==
    \A i, j \in DOMAIN users :
        i # j => NormalizeEmail(users[i].email) # NormalizeEmail(users[j].email)

\* C10: every student row names, as parent_id, a row of the users table.
C10_GuardianResolvable ==
    \A i \in DOMAIN students :
        /\ students[i].parent_id # NullId
        /\ students[i].parent_id \in DOMAIN users

\* A student row is stored by an enrollment answered 201, the seeding run has
\* ended and a login has succeeded.
C10_Witness ==
    /\ students # << >>
    /\ seed[1].status = "ok"
    /\ enr[1].status = 201
    /\ \E l \in Logins : login[l].status = 200

\* C11: the account a student row names as parent_id has role parent.
C11_GuardianHasParentRole ==
    \A i \in DOMAIN students :
        students[i].parent_id \in DOMAIN users =>
            users[students[i].parent_id].role = "parent"

\* C12: an enrollment that inserted a guardian account and whose student
\* INSERT then failed leaves the account in the users table, with the address
\* and role it was inserted with, and no student row about its child is stored.
C12_GuardianSurvivesFailure ==
    \A e \in Enrollers :
        (enr[e].pc = "done" /\ enr[e].userRow # 0 /\ enr[e].status # 201) =>
            /\ enr[e].userRow \in DOMAIN users
            /\ users[enr[e].userRow].email = enr[e].req.parentEmail
            /\ users[enr[e].userRow].role = "parent"
            /\ \A i \in DOMAIN students :
                  students[i].first_name # enr[e].req.firstName

\* An enrollment inserted its guardian account and was then answered 409: its
\* student INSERT hit the student_id of another enrollment's row.
C12_Witness ==
    \E e \in Enrollers :
        /\ enr[e].pc = "done" /\ enr[e].userRow # 0 /\ enr[e].status = 409
        /\ \E i \in DOMAIN students : students[i].student_id = enr[e].studentId
        /\ Len(users) > RosterSize + 1

\* The enrollment reached its student INSERT while another row of the students
\* table had the student_id it generated.
StudentIdCollided(e) ==
    /\ enr[e].pc = "done"
    /\ enr[e].found \/ enr[e].userRow # 0
    /\ \E i \in DOMAIN students :
          i # enr[e].studentRow /\ students[i].student_id = enr[e].studentId

\* C13: an enrollment whose generated identifier collided with a stored
\* student_id is still answered 201 and has stored its student row.
C13_CollisionRegenerates ==
    \A e \in Enrollers :
        StudentIdCollided(e) =>
            enr[e].status = 201 /\ enr[e].studentRow \in DOMAIN students

\* C14: the step of an enrollment request with a required field missing
\* answers 400 and leaves the users and students tables as they were.
C14_ValidationBeforeStore ==
    [][\A e \in Enrollers :
          (enr'[e] # enr[e] /\ MissingRequired(enr'[e].req)) =>
              /\ enr'[e].pc = "done" /\ enr'[e].status = 400
              /\ users' = users
              /\ students' = students]_vars

\* C15: an enrollment of server.js answered 201 has parentCreated = true
\* exactly when it inserted a row into users (the row its student names), and
\* false exactly when its lookup found the account its student names.
C15_ParentCreatedFlag ==
    \A e \in Enrollers :
        (enr[e].status = 201 /\ enr[e].impl = "server") =>
            /\ enr[e].parentCreated <=>
                  (enr[e].userRow # 0 /\ enr[e].userRow = enr[e].parentId)
            /\ ~enr[e].parentCreated <=>
                  /\ enr[e].found /\ enr[e].userRow = 0
                  /\ enr[e].parentId \in RowsWithEmail(enr[e].req.parentEmail)

\* Two enrollments of server.js were answered 201 for one guardian address:
\* one inserted the account, the other found it.
C15_Witness ==
    \E d, e \in Enrollers :
        /\ enr[d].status = 201 /\ enr[d].impl = "server" /\ enr[d].parentCreated
        /\ enr[e].status = 201 /\ enr[e].impl = "server" /\ ~enr[e].parentCreated
        /\ enr[d].parentId = enr[e].parentId

\* The stored accounts with the address of the login request.
LoginAccounts(l) == RowsWithEmail(login[l].email)

\* C16: a login request naming the address of an account whose is_active is
\* false is answered with a failure, gets no token, and the account's
\* last_login is not set.
C16_InactiveNeverLogsIn ==
    \A l \in Logins :
        \A i \in LoginAccounts(l) :
            (login[l].pc # "idle" /\ ~users[i].is_active) =>
                /\ login[l].pc = "done"
                /\ login[l].status \in {400, 401}
                /\ login[l].token = NullRecord
                /\ users[i].last_login = NullTime

\* A login with the right password of a deactivated account was answered 401.
C16_Witness ==
    \E l \in Logins :
        \E i \in LoginAccounts(l) :
            /\ ~users[i].is_active
            /\ bcryptCompare(login[l].password, users[i].password)
            /\ login[l].status = 401

\* C17: once a seeding run from the empty store has ended and none is in
\* flight, the table has exactly 7 accounts, each active and each with
\* requires_password_change = true, whichever implementation seeded.
C17_SeededActiveMustRotate ==
    (SomeSeedEnded /\ NoSeedRunning) =>
        /\ Len(users) = RosterSize
        /\ \A i \in DOMAIN users :
              users[i].is_active /\ users[i].requires_password_change

\* C18: a login with the address and the initial secret of a seeded, active
\* account is answered 200, its token has the account's user_id and role
\* admin, and its profile has requiresPasswordChange = true.
C18_SeededLoginMustRotate ==
    \A l \in Logins :
        \A k \in 1..RosterSize :
            ( /\ login[l].pc = "done"
              /\ login[l].email = adminEmail(initialAdmins[k])
              /\ login[l].password = initialAdmins[k].password
              /\ users[k].is_active ) =>
                /\ login[l].status = 200
                /\ login[l].token # NullRecord
                /\ login[l].token.userId = adminUserId(initialAdmins[k])
                /\ login[l].token.role = "admin"
                /\ "requiresPasswordChange" \in DOMAIN login[l].profile
                /\ login[l].profile.requiresPasswordChange = TRUE

\* C19: a step changes a row of the users table only by setting last_login of
\* the account of a login whose password verified and that is answered 200;
\* the step that answers a login with a failure changes no row.
C19_LastLoginOnlyOnVerified ==
    [][/\ \A i \in DOMAIN users :
            /\ i \in DOMAIN users'
            /\ users'[i] # users[i] =>
                  \E l \in Logins :
                      /\ login[l].pc = "compare" /\ login[l].userId = i
                      /\ bcryptCompare(login[l].password, users[i].password)
                      /\ login'[l].status = 200
                      /\ users'[i] = [users[i] EXCEPT !.last_login = now]
       /\ \A l \in Logins :
            (login'[l] # login[l] /\ login'[l].status # 200) => users' = users]_vars

\* A login with a wrong password for a stored, active account was answered
\* 401 after the comparison, and the account's last_login is still NULL.
C19_Witness ==
    \E l \in Logins :
        /\ login[l].pc = "done" /\ login[l].status = 401
        /\ login[l].impl = "server"
        /\ login[l].userId \in DOMAIN users
        /\ users[login[l].userId].last_login = NullTime

\* C20: every issued token expires 7 days after it was issued, whatever the
\* account and role: at an instant t (in seconds) it is unexpired exactly when
\* t < iat + 7 days.
C20_TokenLifetime ==
    \A l \in Logins :
        login[l].token # NullRecord =>
            /\ login[l].token.exp = login[l].token.iat + TokenDays * SecondsPerDay
            /\ \A t \in Instants :
                  (t < login[l].token.exp)
                      <=> (t < login[l].token.iat + TokenDays * SecondsPerDay)

\* A guardian has a token that was issued after the clock had advanced.
C20_Witness ==
    \E l \in Logins :
        /\ login[l].token # NullRecord
        /\ login[l].token.role = "parent"
        /\ login[l].token.iat > 0

\* C21: an enrollment whose INSERT hit a uniqueness violation is not answered
\* with the internal-error or unavailable status, and an enrollment answered
\* 409 did hit a uniqueness violation.
UniqueViolation(e) ==
    \/ enr[e].parentConflict # {}
    \/ /\ enr[e].found \/ enr[e].userRow # 0
       /\ enr[e].studentRow = 0
       /\ \E i \in DOMAIN students :
             \/ students[i].student_id = enr[e].studentId
             \/ /\ enr[e].schoolAccountNumber # NullKey
                /\ students[i].school_account_number = enr[e].schoolAccountNumber

C21_ConflictDistinctFromFailure ==
    \A e \in Enrollers :
        enr[e].pc = "done" =>
            /\ enr[e].parentConflict # {} => enr[e].status \notin {500, 503}
            /\ enr[e].status = 409 => UniqueViolation(e)

\* C22: console output never has the plaintext initial secret of a roster
\* account.
C22_NoSecretInLog ==
    \A k \in 1..RosterSize : initialAdmins[k].password \notin console

\* C23: no step removes a row of the users table or changes its user_id,
\* email or role.
C23_AccountsNeverRemoved ==
    [][\A i \in DOMAIN users :
          /\ i \in DOMAIN users'
          /\ users'[i].user_id = users[i].user_id
          /\ users'[i].email = users[i].email
          /\ users'[i].role = users[i].role]_vars

\* The table holds a guardian account and the roster; the seeding run has
\* ended and a login has set last_login of an account.
C23_Witness ==
    /\ seed[1].status = "ok"
    /\ \E i \in DOMAIN users : users[i].role = "parent"
    /\ \E i \in DOMAIN users : users[i].role = "admin" /\ users[i].last_login # NullTime
    /\ \E e \in Enrollers : enr[e].pc = "done" /\ enr[e].userRow # 0

\* C25: an enrollment is answered 409 only when the student_id it generated
\* is the student_id of a stored row; never after a uniqueness violation of
\* its account INSERT or on the school account number alone.
C25_Conflict409IsStudentId ==
    \A e \in Enrollers :
        (enr[e].pc = "done" /\ enr[e].status = 409) =>
            /\ enr[e].parentConflict = {}
            /\ \E i \in DOMAIN students : students[i].student_id = enr[e].studentId

\* C26: a seeding run of server.js never ends failed; it has tried every
\* roster account before the one it is at; the accounts it reports are those
\* whose INSERT raised no error, in roster order, so the reported total is the
\* number of INSERTs that did not raise.
C26_SeedingGoesOn ==
    \A p \in Seeders :
        seed[p].impl = "server" =>
            /\ seed[p].status # "failed"
            /\ seed[p].status = "ok" => seed[p].next = RosterSize + 1
            /\ { seed[p].reported[n] : n \in DOMAIN seed[p].reported }
                  = (1..(seed[p].next - 1)) \ seed[p].raised
            /\ Len(seed[p].reported) = (seed[p].next - 1) - Cardinality(seed[p].raised)

\* A run of server.js has ended: an INSERT raised an error, the INSERT of a
\* later account did not, and an account was skipped on a conflict.
C26_Witness ==
    \E p \in Seeders :
        /\ seed[p].impl = "server" /\ seed[p].status = "ok"
        /\ \E i \in seed[p].raised :
              \E n \in DOMAIN seed[p].reported : seed[p].reported[n] > i
        /\ \E n \in DOMAIN seed[p].reported : seed[p].reported[n] \notin seed[p].inserted

\* C27: when exactly two enrollments, for different children and different
\* guardian addresses that no account had, have been answered, both were
\* answered 201.
C27_DistinctGuardiansIndependent ==
    \A d, e \in Enrollers :
        ( /\ d # e
          /\ \A o \in Enrollers \ {d, e} : enr[o].pc = "idle"
          /\ enr[d].pc = "done" /\ enr[e].pc = "done"
          /\ ~enr[d].found /\ ~enr[e].found
          /\ enr[d].req.parentEmail # enr[e].req.parentEmail
          /\ enr[d].req.firstName # enr[e].req.firstName ) =>
            enr[d].status = 201 /\ enr[e].status = 201

\* C28: once every enrollment request has been answered, each account that an
\* enrollment of server.js inserted is the parentId of an enrollment answered
\* 201 with parentCreated = true.
C28_CreatedAccountReported ==
    (\A e \in Enrollers : enr[e].pc = "done") =>
        \A e \in Enrollers :
            (enr[e].impl = "server" /\ enr[e].userRow # 0) =>
                \E d \in Enrollers :
                    /\ enr[d].status = 201 /\ enr[d].parentCreated
                    /\ enr[d].parentId = enr[e].userRow

C30_OperationsFrame ==
    [][/\ \A l \in Logins :
            login'[l] # login[l] =>
                /\ students' = students
                /\ Len(users') = Len(users)
                /\ \A i \in DOMAIN users :
                      \/ users'[i] = users[i]
                      \/ /\ i = login[l].userId /\ login'[l].status = 200
                         /\ users'[i] = [users[i] EXCEPT !.last_login = users'[i].last_login]
       /\ seed' # seed => students' = students
       /\ enr' # enr =>
            /\ \A i \in DOMAIN users : i \in DOMAIN users' /\ users'[i] = users[i]
            /\ \A i \in DOMAIN students :
                  i \in DOMAIN students' /\ students'[i] = students[i]]_vars

\* An enrollment has stored a student row naming the first account, a login to
\* that account has set its last_login, and the seeding run has ended.
C30_Witness ==
    /\ seed[1].status = "ok"
    /\ \E i \in DOMAIN students : students[i].parent_id = 1
    /\ users[1].last_login # NullTime

====
